---- MODULE Spec2Model ----
(***************************************************************************)
(* Victron MultiPlus remote (ON/CH) relay controller, relay_control.ino.   *)
(*                                                                         *)
(* An Arduino String is a sequence of one-character strings.  A reply line *)
(* written with Serial.print/println is a TLA+ string.  A pin is modelled  *)
(* by its data direction (pinMode) and its output latch (digitalWrite);    *)
(* the level seen by the relay board is the latch once the pin is an       *)
(* output, and high impedance ("Z") while it is still an input.  The       *)
(* sketch targets a Nano (ATmega328P): at reset every pin is an input and  *)
(* every output latch is 0.                                                *)
(*                                                                         *)
(* Spec is the sketch from reset, reading lines and pieces of lines cut by *)
(* the read timeout; SpecLive adds the fairness of the processor;          *)
(* SpecStream records everything printed over short runs; SpecParseBool    *)
(* and SpecApplyRelay run parseBool and applyRelay on their own.           *)
(***************************************************************************)
EXTENDS Integers, Sequences, FiniteSets, TLC

LOW == "LOW"

HIGH == "HIGH"

OUTPUT == "OUTPUT"

INPUT == "INPUT"

RELAY_ON_PIN == 2

RELAY_CH_PIN == 3

Pins == {RELAY_ON_PIN, RELAY_CH_PIN}

(***************************************************************************)
(* Bounds of the model.                                                    *)
(***************************************************************************)
\* longest run of extra blanks put before, inside and after a generated line
MaxPad == 1

\* longest string over PBAlphabet handed to parseBool in SpecParseBool
MaxArgLen == 3

\* most read timeouts within one line the host sends
MaxCuts == 2

\* most lines read in a run of SpecStream
MaxLines == 3

(***************************************************************************)
(* Arduino String operations used by the sketch.                           *)
(***************************************************************************)
UpperAlpha ==
  <<"A","B","C","D","E","F","G","H","I","J","K","L","M",
    "N","O","P","Q","R","S","T","U","V","W","X","Y","Z">>

LowerAlpha ==
  <<"a","b","c","d","e","f","g","h","i","j","k","l","m",
    "n","o","p","q","r","s","t","u","v","w","x","y","z">>

\* tolower() of one character
tolower(c) ==
  IF \E i \in 1..26 : UpperAlpha[i] = c
  THEN LowerAlpha[CHOOSE i \in 1..26 : UpperAlpha[i] = c]
  ELSE c

\* a trim that takes off blanks only
isspace_OnlyBlank(c) == c = " "

\* isspace() of one character, as used by String::trim
isspace(c) == c \in {" ", "\t", "\n", "\r", "\f"}

\* String::toLowerCase
toLowerCase(s) == [i \in 1..Len(s) |-> tolower(s[i])]

RECURSIVE trimLeft(_)
trimLeft(s) ==
  IF s = <<>> THEN s
  ELSE IF isspace(Head(s)) THEN trimLeft(Tail(s)) ELSE s

RECURSIVE trimRight(_)
trimRight(s) ==
  IF s = <<>> THEN s
  ELSE IF isspace(s[Len(s)]) THEN trimRight(SubSeq(s, 1, Len(s) - 1)) ELSE s

\* String::trim: drops leading and trailing white space
trim(s) == trimRight(trimLeft(s))

\* String::indexOf(ch): 0-based index of the first occurrence, -1 if none
indexOf(s, c) ==
  IF \E i \in 1..Len(s) : s[i] = c
  THEN (CHOOSE i \in 1..Len(s) : s[i] = c /\ \A j \in 1..(i - 1) : s[j] # c) - 1
  ELSE -1

\* String::substring(from, to): characters from..to-1, 0-based
substring(s, from, to) == SubSeq(s, from + 1, to)

\* String::substring(from): characters from..end, 0-based
substringFrom(s, from) == SubSeq(s, from + 1, Len(s))

\* trimLower(s): copy, trim, toLowerCase
trimLower(s) == toLowerCase(trim(s))

(***************************************************************************)
(* String literals of the sketch.                                          *)
(***************************************************************************)
lit_help == <<"h","e","l","p">>

lit_state == <<"s","t","a","t","e","?">>

lit_on == <<"o","n">>

lit_ch == <<"c","h">>

lit_all == <<"a","l","l">>

lit_1 == <<"1">>

lit_true == <<"t","r","u","e">>

lit_enable == <<"e","n","a","b","l","e">>

lit_enabled == <<"e","n","a","b","l","e","d">>

lit_0 == <<"0">>

lit_off == <<"o","f","f">>

lit_false == <<"f","a","l","s","e">>

lit_disable == <<"d","i","s","a","b","l","e">>

lit_disabled == <<"d","i","s","a","b","l","e","d">>

\* parseBool with every other value read as false, as atoi would
parseBool_OtherIsFalse(val, out) ==
  LET v == trimLower(val) IN
  IF v = lit_1 \/ v = lit_on \/ v = lit_true \/ v = lit_enable \/ v = lit_enabled
  THEN <<TRUE, TRUE>>
  ELSE <<TRUE, FALSE>>

\* parseBool without the "enabled" and "disabled" spellings
parseBool_NoLongForms(val, out) ==
  LET v == trimLower(val) IN
  IF v = lit_1 \/ v = lit_on \/ v = lit_true \/ v = lit_enable
  THEN <<TRUE, TRUE>>
  ELSE IF v = lit_0 \/ v = lit_off \/ v = lit_false \/ v = lit_disable
  THEN <<TRUE, FALSE>>
  ELSE <<FALSE, out>>

(***************************************************************************)
(* parseBool(val, out): the pair <<returned value, out after the call>>.   *)
(* out is written only on the two accepting branches.                      *)
(***************************************************************************)
parseBool(val, out) ==
  LET v == trimLower(val) IN
  IF v = lit_1 \/ v = lit_on \/ v = lit_true \/ v = lit_enable \/ v = lit_enabled
  THEN <<TRUE, TRUE>>
  ELSE IF v = lit_0 \/ v = lit_off \/ v = lit_false \/ v = lit_disable \/ v = lit_disabled
  THEN <<TRUE, FALSE>>
  ELSE <<FALSE, out>>

(***************************************************************************)
(* Relay Driver: the level applyRelay writes for a logical state.          *)
(***************************************************************************)
\* applyRelay with enabled taken for energized
applyRelayLevel_Energize(activeLow, enabled) ==
  LET energize == enabled IN
  IF activeLow
  THEN (IF energize THEN LOW ELSE HIGH)
  ELSE (IF energize THEN HIGH ELSE LOW)

\* applyRelay with the polarity flag ignored
applyRelayLevel_NoPolarity(activeLow, enabled) ==
  LET energize == ~enabled IN
  IF energize THEN LOW ELSE HIGH

applyRelayLevel(activeLow, enabled) ==
  LET energize == ~enabled IN
  IF activeLow
  THEN (IF energize THEN LOW ELSE HIGH)
  ELSE (IF energize THEN HIGH ELSE LOW)

\* the snapshot line printed by publishState
Digit(b) == IF b THEN "1" ELSE "0"

\* publishState with the two flags swapped
publishStateLine_Swapped(inv, chg) == "STATE ON=" \o Digit(chg) \o " CH=" \o Digit(inv)

publishStateLine(inv, chg) == "STATE ON=" \o Digit(inv) \o " CH=" \o Digit(chg)

VARIABLES
  RELAY_ACTIVE_LOW,   \* build-time polarity of the relay board
  ddr,                \* pin -> INPUT | OUTPUT
  port,               \* pin -> output latch, LOW | HIGH
  inverterEnabled,    \* ON link
  chargerEnabled,     \* CH link
  pc,                 \* position in setup() / loop()
  rx,                 \* characters readStringUntil('\n') returned last
  line, cmd, arg,     \* locals of loop()
  v,                  \* <<local bool v of the ON / CH / ALL branch>>, <<>> outside it
  ret,                \* value the last parseBool call returned, FALSE before one
  out,                \* reply lines printed since the current line was read
  writes,             \* digitalWrite calls since the current line was read
  h_nth,              \* history: "none", "first" or "later" line read
  h_view,             \* history: the host's view of the line read last
  h_lastOn,           \* history: <<value>> of the last accepted ON or ALL line
  h_lastCh,           \* history: <<value>> of the last accepted CH or ALL line
  h_prevAll,          \* history: <<value>> of the line before, if an accepted ALL
  h_once,             \* history: <<result>> of the line before, if the same line
                      \* (each of the last four is <<>> when there is none)
  pending,            \* <<rest>>: what is still to come of a line that the read
                      \* timeout cut, <<>> when nothing is
  cuts,               \* read timeouts within the line being received
  call,               \* arguments of the call when applyRelay is run on its own
  h_pre,              \* history: the two links when the line was read
  h_snap,             \* history: <<text>> of the last line publishState printed
  h_log               \* history: everything printed and the lines read so far,
                      \* kept only in the run that records it (h_log.rec)

vars == <<RELAY_ACTIVE_LOW, ddr, port, inverterEnabled, chargerEnabled,
          pc, rx, line, cmd, arg, v, ret, out, writes,
          h_nth, h_view, h_lastOn, h_lastCh, h_prevAll, h_once,
          pending, cuts, call, h_pre, h_snap, h_log>>

\* level on the wire of a pin
PinLevel(p) == IF ddr[p] = OUTPUT THEN port[p] ELSE "Z"

pinMode(p, m) == ddr' = [ddr EXCEPT ![p] = m]

digitalWrite(p, level) ==
  /\ port' = [port EXCEPT ![p] = level]
  /\ writes' = Append(writes, <<p, level>>)

applyRelay(p, enabled) == digitalWrite(p, applyRelayLevel(RELAY_ACTIVE_LOW, enabled))

\* setCharger storing the flag without driving the relay
setCharger_NoDrive(enabled) ==
  /\ chargerEnabled' = enabled
  /\ UNCHANGED <<port, writes>>

\* setInverter driving the charger's pin
setInverter_WrongPin(enabled) ==
  /\ inverterEnabled' = enabled
  /\ applyRelay(RELAY_CH_PIN, enabled)

\* setInverter flipping the link instead of setting it
setInverter_Toggle(enabled) ==
  /\ inverterEnabled' = ~inverterEnabled
  /\ applyRelay(RELAY_ON_PIN, ~inverterEnabled)

setInverter(enabled) ==
  /\ inverterEnabled' = enabled
  /\ applyRelay(RELAY_ON_PIN, enabled)

setCharger(enabled) ==
  /\ chargerEnabled' = enabled
  /\ applyRelay(RELAY_CH_PIN, enabled)

\* the lines ss go out on the serial port; snap is the last state line after
emit(ss, snap) ==
  /\ out' = out \o ss
  /\ h_snap' = snap
  /\ h_log' = IF h_log.rec THEN [h_log EXCEPT !.stream = @ \o ss] ELSE h_log

println(s) == emit(<<s>>, h_snap)

publishState ==
  LET s == publishStateLine(inverterEnabled, chargerEnabled) IN emit(<<s>>, <<s>>)

tx == <<out, h_snap, h_log>>

hist == <<h_nth, h_view, h_lastOn, h_lastCh, h_prevAll, h_once, h_pre>>

aside == <<pending, cuts, call>>

locals == <<rx, line, cmd, arg, v, ret, aside, hist>>

\* nothing recorded yet; rec tells whether this run records
NoLog(rec) == [rec |-> rec, n |-> 0, stream |-> <<>>, reads |-> <<>>]

\* The state at reset: the globals as initialised at lines 19-23 (with either
\* setting of the build-time polarity flag), both pins inputs with their
\* output latches at 0, control at the first statement of setup().
Reset ==
  /\ RELAY_ACTIVE_LOW \in BOOLEAN
  /\ ddr = [p \in Pins |-> INPUT]
  /\ port = [p \in Pins |-> LOW]
  /\ inverterEnabled = TRUE
  /\ chargerEnabled = TRUE
  /\ pc = "setup_pinMode_on"
  /\ rx = <<>>
  /\ line = <<>>
  /\ cmd = <<>>
  /\ arg = <<>>
  /\ v = <<>>
  /\ ret = FALSE
  /\ out = <<>>
  /\ writes = <<>>
  /\ h_nth = "none"
  /\ h_view = [word |-> <<>>, arg |-> <<>>]
  /\ h_lastOn = <<>>
  /\ h_lastCh = <<>>
  /\ h_prevAll = <<>>
  /\ h_once = <<>>
  /\ pending = <<>>
  /\ cuts = 0
  /\ call = <<>>
  /\ h_pre = <<TRUE, TRUE>>
  /\ h_snap = <<>>

Init == Reset /\ h_log = NoLog(FALSE)

(***************************************************************************)
(* setup(), one action per statement.                                      *)
(***************************************************************************)
SetupPinModeOn ==
  /\ pc = "setup_pinMode_on"
  /\ pinMode(RELAY_ON_PIN, OUTPUT)
  /\ pc' = "setup_pinMode_ch"
  /\ UNCHANGED <<RELAY_ACTIVE_LOW, port, inverterEnabled, chargerEnabled, locals, tx, writes>>

SetupPinModeCh ==
  /\ pc = "setup_pinMode_ch"
  /\ pinMode(RELAY_CH_PIN, OUTPUT)
  /\ pc' = "setup_write_on"
  /\ UNCHANGED <<RELAY_ACTIVE_LOW, port, inverterEnabled, chargerEnabled, locals, tx, writes>>

SetupWriteOn ==
  /\ pc = "setup_write_on"
  /\ IF RELAY_ACTIVE_LOW
     THEN digitalWrite(RELAY_ON_PIN, HIGH)
     ELSE digitalWrite(RELAY_ON_PIN, LOW)
  /\ pc' = "setup_write_ch"
  /\ UNCHANGED <<RELAY_ACTIVE_LOW, ddr, inverterEnabled, chargerEnabled, locals, tx>>

\* the raw write of the charger pin made for an active-low board only
SetupWriteCh_AlwaysHigh ==
  /\ pc = "setup_write_ch"
  /\ digitalWrite(RELAY_CH_PIN, HIGH)
  /\ pc' = "setup_serial"
  /\ UNCHANGED <<RELAY_ACTIVE_LOW, ddr, inverterEnabled, chargerEnabled, locals, tx>>

SetupWriteCh ==
  /\ pc = "setup_write_ch"
  /\ IF RELAY_ACTIVE_LOW
     THEN digitalWrite(RELAY_CH_PIN, HIGH)
     ELSE digitalWrite(RELAY_CH_PIN, LOW)
  /\ pc' = "setup_serial"
  /\ UNCHANGED <<RELAY_ACTIVE_LOW, ddr, inverterEnabled, chargerEnabled, locals, tx>>

\* Serial.begin(115200); Serial.setTimeout(50): no effect on pins or flags
SetupSerial ==
  /\ pc = "setup_serial"
  /\ pc' = "setup_setInverter"
  /\ UNCHANGED <<RELAY_ACTIVE_LOW, ddr, port, inverterEnabled, chargerEnabled, locals, tx, writes>>

SetupSetInverter ==
  /\ pc = "setup_setInverter"
  /\ setInverter(TRUE)
  /\ pc' = "setup_setCharger"
  /\ UNCHANGED <<RELAY_ACTIVE_LOW, ddr, chargerEnabled, locals, tx>>

\* setup() opening the charger link
SetupSetCharger_Off ==
  /\ pc = "setup_setCharger"
  /\ setCharger(FALSE)
  /\ pc' = "setup_ready"
  /\ UNCHANGED <<RELAY_ACTIVE_LOW, ddr, inverterEnabled, locals, tx>>

SetupSetCharger ==
  /\ pc = "setup_setCharger"
  /\ setCharger(TRUE)
  /\ pc' = "setup_ready"
  /\ UNCHANGED <<RELAY_ACTIVE_LOW, ddr, inverterEnabled, locals, tx>>

SetupReady ==
  /\ pc = "setup_ready"
  /\ println("Victron Remote Relay Ready")
  /\ pc' = "setup_publishState"
  /\ UNCHANGED <<RELAY_ACTIVE_LOW, ddr, port, inverterEnabled, chargerEnabled, locals, writes>>

SetupPublishState ==
  /\ pc = "setup_publishState"
  /\ publishState
  /\ pc' = "setup_hint"
  /\ UNCHANGED <<RELAY_ACTIVE_LOW, ddr, port, inverterEnabled, chargerEnabled, locals, writes>>

SetupHint ==
  /\ pc = "setup_hint"
  /\ println("Type HELP for commands")
  /\ pc' = "idle"
  /\ UNCHANGED <<RELAY_ACTIVE_LOW, ddr, port, inverterEnabled, chargerEnabled, locals, writes>>

Setup ==
  \/ SetupPinModeOn \/ SetupPinModeCh \/ SetupWriteOn \/ SetupWriteCh
  \/ SetupSerial \/ SetupSetInverter \/ SetupSetCharger
  \/ SetupReady \/ SetupPublishState \/ SetupHint

(***************************************************************************)
(* Lines the host can send.  readStringUntil('\n') drops the line feed, so *)
(* a line holds none.  ON, CH and ALL are combined with every argument,    *)
(* every command word (other spellings of the three included) with the few *)
(* arguments; each line is sent plain and with n = 1..MaxPad extra blanks  *)
(* before, inside and after it and a carriage return at the end.           *)
(***************************************************************************)
RECURSIVE Blanks(_)
Blanks(n) == IF n = 0 THEN <<>> ELSE <<" ">> \o Blanks(n - 1)

MutWords == { <<"O","N">>, <<"C","H">>, <<"A","L","L">> }

AllWords ==
  MutWords \cup
  { <<"o","n">>, <<"c","H">>, <<"A","l","l">>,
    <<"H","E","L","P">>, <<"h","e","l","p">>,
    <<"S","T","A","T","E","?">>, <<"S","t","a","t","e","?">>,
    <<"S","T","A","T","E">>, <<"F","O","O">>, <<"O","N","N">>,
    <<"O","N","\t","0">> }

ArgWords ==
  { <<>>,
    <<"1">>, <<"o","n">>, <<"O","N">>, <<"t","r","u","e">>,
    <<"e","n","a","b","l","e">>, <<"e","n","a","b","l","e","d">>,
    <<"0">>, <<"o","f","f">>, <<"f","a","l","s","e">>, <<"F","A","L","S","E">>,
    <<"d","i","s","a","b","l","e">>, <<"d","i","s","a","b","l","e","d">>,
    <<"e","n","a","b","l">>, <<"2">>, <<"0","1">>,
    <<"1"," ","e","x","t","r","a">>, <<"O","N"," ","0">> }

FewArgs == { <<>>, <<"0">> }

\* the line "c a" sent with n extra blanks around its parts
Framed(n, c, a) ==
  IF n = 0
  THEN c \o <<" ">> \o a
  ELSE Blanks(n) \o c \o <<" ">> \o Blanks(n) \o a \o Blanks(n) \o <<"\r">>

Lines ==
  { Framed(n, c, a) : n \in 0..MaxPad, c \in MutWords, a \in ArgWords }
  \cup { Framed(n, c, a) : n \in 0..MaxPad, c \in AllWords, a \in FewArgs }
  \cup { Blanks(n) : n \in 0..MaxPad }
  \cup { <<"\r">>, <<"\t">> }

(***************************************************************************)
(* Serial.setTimeout(50), line 76: readStringUntil('\n') returns what has  *)
(* arrived when no character comes for 50 ms, and the rest of the line is  *)
(* returned by the reads that follow.  SlowLines are the lines the host    *)
(* sends slowly enough for that; a line is cut at most MaxCuts times.      *)
(***************************************************************************)
SlowLines ==
  { <<"O","N"," ","0","\r">>, <<"A","L","L"," ","1">>,
    <<"C","H"," ","o","f","f">>, <<"S","T","A","T","E","?">> }

\* the ways the timeout can split t: <<what the read returns, what is to come>>.
\* Serial.available() was true, so the read returns a character at least.
Splits(t) == { <<SubSeq(t, 1, k), SubSeq(t, k + 1, Len(t))>> : k \in 1..Len(t) }

RECURSIVE Pieces(_, _)
\* the texts a read can return of the lines of S with up to n cuts
Pieces(S, n) ==
  IF n = 0 THEN S
  ELSE S \cup Pieces({ c[1] : c \in UNION { Splits(t) : t \in S } }
                     \cup { c[2] : c \in UNION { Splits(t) : t \in S } }, n - 1)

\* every text a read can return
Texts == Lines \cup Pieces(SlowLines, MaxCuts)

(***************************************************************************)
(* loop().  LoopRead is lines 95-109 and the choice of the branch; the     *)
(* branches follow, one action per statement.                              *)
(***************************************************************************)
\* the dispatch comparing only the first two characters with "on"
Branch_Prefix(c) ==
  IF c = lit_help THEN "help"
  ELSE IF c = lit_state THEN "state"
  ELSE IF Len(c) >= 2 /\ SubSeq(c, 1, 2) = lit_on THEN "on_parse"
  ELSE IF c = lit_ch THEN "ch_parse"
  ELSE IF c = lit_all THEN "all_parse"
  ELSE "unknown"

\* the dispatch taking the beginning of "on" for the word
Branch_Abbrev(c) ==
  IF c = lit_help THEN "help"
  ELSE IF c = lit_state THEN "state"
  ELSE IF c = lit_on \/ c = SubSeq(lit_on, 1, 1) THEN "on_parse"
  ELSE IF c = lit_ch THEN "ch_parse"
  ELSE IF c = lit_all THEN "all_parse"
  ELSE "unknown"

Branch(c) ==
  IF c = lit_help THEN "help"
  ELSE IF c = lit_state THEN "state"
  ELSE IF c = lit_on THEN "on_parse"
  ELSE IF c = lit_ch THEN "ch_parse"
  ELSE IF c = lit_all THEN "all_parse"
  ELSE "unknown"

\* the command word compared as it was typed
cmdOf_CaseSensitive(l) ==
  LET sp == indexOf(l, " ") IN
  IF sp >= 0 THEN substring(l, 0, sp) ELSE l

\* lines 101-108: the command word of a trimmed, non-empty line
cmdOf(l) ==
  LET sp == indexOf(l, " ") IN
  toLowerCase(IF sp >= 0 THEN substring(l, 0, sp) ELSE l)

\* lines 102-109: the argument of a trimmed, non-empty line
argOf(l) ==
  LET sp == indexOf(l, " ") IN
  trim(IF sp >= 0 THEN substringFrom(l, sp + 1) ELSE <<>>)

(***************************************************************************)
(* The protocol as the host sees it, written without the sketch's parser:  *)
(* the command word and the argument of a line, the accepted tokens and    *)
(* the reply texts.                                                        *)
(***************************************************************************)
TrueTokens ==
  { <<"1">>, <<"o","n">>, <<"t","r","u","e">>,
    <<"e","n","a","b","l","e">>, <<"e","n","a","b","l","e","d">> }

FalseTokens ==
  { <<"0">>, <<"o","f","f">>, <<"f","a","l","s","e">>,
    <<"d","i","s","a","b","l","e">>, <<"d","i","s","a","b","l","e","d">> }

\* number of characters of t before its first blank
WordLen(t) ==
  CHOOSE k \in 0..Len(t) :
    /\ \A i \in 1..k : t[i] # " "
    /\ (k = Len(t) \/ t[k + 1] = " ")

\* the host's view of line l: its command word and its argument, lower case
HostView(l) ==
  LET t == trim(l)
      k == WordLen(t)
  IN [ word |-> toLowerCase(SubSeq(t, 1, k)),
       arg |-> toLowerCase(trim(SubSeq(t, k + 2, Len(t)))) ]

\* HostView of every text a read can return, worked out once
HostTable == [ l \in Texts |-> HostView(l) ]

IsMutWord(w) == w \in { <<"o","n">>, <<"c","h">>, <<"a","l","l">> }

\* an ON, CH or ALL line with an accepted token
Accepted(h) == IsMutWord(h.word) /\ h.arg \in TrueTokens \cup FalseTokens

\* an ON, CH or ALL line with anything else as its argument
BadValue(h) == IsMutWord(h.word) /\ h.arg \notin TrueTokens \cup FalseTokens

HostValue(h) == h.arg \in TrueTokens

IsOn(h) == h.word = <<"o","n">>

IsCh(h) == h.word = <<"c","h">>

IsAll(h) == h.word = <<"a","l","l">>

AddressesOn(h) == IsOn(h) \/ IsAll(h)

AddressesCh(h) == IsCh(h) \/ IsAll(h)

IsQueryState(h) == h.word = <<"s","t","a","t","e","?">>

IsHelp(h) == h.word = <<"h","e","l","p">>

\* a line that is not empty and starts with none of the five command words
IsUnknown(h) ==
  /\ h.word # <<>>
  /\ ~IsMutWord(h.word)
  /\ ~IsQueryState(h)
  /\ ~IsHelp(h)

SnapText(a, b) ==
  IF a THEN (IF b THEN "STATE ON=1 CH=1" ELSE "STATE ON=1 CH=0")
       ELSE (IF b THEN "STATE ON=0 CH=1" ELSE "STATE ON=0 CH=0")

ErrText(h) ==
  IF IsOn(h) THEN "ERR bad ON value"
  ELSE IF IsCh(h) THEN "ERR bad CH value"
  ELSE "ERR bad ALL value"

DeEnergizedLevel == IF RELAY_ACTIVE_LOW THEN "HIGH" ELSE "LOW"

EnergizedLevel == IF RELAY_ACTIVE_LOW THEN "LOW" ELSE "HIGH"

Result == [out |-> out, on |-> inverterEnabled, ch |-> chargerEnabled,
           levels |-> [p \in Pins |-> PinLevel(p)]]

\* the history variables when line l is read
HistRead(l) ==
  LET h == HostTable[l] IN
  /\ h_nth' = IF h_nth = "none" THEN "first" ELSE "later"
  /\ h_view' = h
  /\ h_lastOn' = IF Accepted(h) /\ AddressesOn(h) THEN <<HostValue(h)>> ELSE h_lastOn
  /\ h_lastCh' = IF Accepted(h) /\ AddressesCh(h) THEN <<HostValue(h)>> ELSE h_lastCh
  /\ h_prevAll' = IF Accepted(h_view) /\ IsAll(h_view)
                  THEN <<HostValue(h_view)>> ELSE <<>>
  /\ h_once' = IF h_nth # "none" /\ l = rx THEN <<Result>> ELSE <<>>
  /\ h_pre' = <<inverterEnabled, chargerEnabled>>

\* lines 96-109 and the choice of the branch, readStringUntil having returned l
Received(l) ==
  /\ rx' = l
  /\ line' = trim(l)
  /\ HistRead(l)
  /\ out' = <<>>
  /\ writes' = <<>>
  /\ v' = <<>>
  /\ ret' = FALSE
  /\ IF Len(line') = 0
     THEN /\ cmd' = <<>>
          /\ arg' = <<>>
          /\ pc' = "idle"
     ELSE /\ cmd' = cmdOf(line')
          /\ arg' = argOf(line')
          /\ pc' = Branch(cmd')
  /\ UNCHANGED <<RELAY_ACTIVE_LOW, ddr, port, inverterEnabled, chargerEnabled,
                 call, h_snap>>

\* line 95-96: a line is there and is read, whole or as far as it has come
LoopRead ==
  /\ pc = "idle"
  /\ \/ /\ pending = <<>>
        /\ \E l \in Lines \cup SlowLines :
             /\ Received(l)
             /\ pending' = <<>>
             /\ cuts' = 0
     \/ /\ pending = <<>>
        /\ \E l \in SlowLines : \E c \in Splits(l) :
             /\ Received(c[1])
             /\ pending' = << c[2] >>
             /\ cuts' = 1
     \/ /\ pending # <<>>
        /\ Received(pending[1])
        /\ pending' = <<>>
        /\ cuts' = cuts
     \/ /\ pending # <<>>
        /\ cuts < MaxCuts
        /\ \E c \in Splits(pending[1]) :
             /\ Received(c[1])
             /\ pending' = << c[2] >>
             /\ cuts' = cuts + 1
  /\ UNCHANGED h_log

HelpText ==
  << "Commands:", "  ON 1 | ON 0", "  CH 1 | CH 0", "  ALL 1 | ALL 0",
     "  STATE?", "  HELP" >>

LoopHelp ==
  /\ pc = "help"
  /\ emit(HelpText, h_snap)
  /\ pc' = "idle"
  /\ UNCHANGED <<RELAY_ACTIVE_LOW, ddr, port, inverterEnabled, chargerEnabled, locals, writes>>

LoopState ==
  /\ pc = "state"
  /\ publishState
  /\ pc' = "idle"
  /\ UNCHANGED <<RELAY_ACTIVE_LOW, ddr, port, inverterEnabled, chargerEnabled, locals, writes>>

\* bool v; if (!parseBool(arg, v)) { Serial.println(err); return; }
\* v is declared without a value: it holds either boolean before the call
ParseStep(here, err, next) ==
  /\ pc = here
  /\ \E v0 \in BOOLEAN :
     LET r == parseBool(arg, v0) IN
       /\ v' = << r[2] >>
       /\ ret' = r[1]
       /\ IF r[1]
          THEN /\ pc' = next
               /\ UNCHANGED tx
          ELSE /\ println(err)
               /\ pc' = "idle"
  /\ UNCHANGED <<RELAY_ACTIVE_LOW, ddr, port, inverterEnabled, chargerEnabled,
                 rx, line, cmd, arg, aside, writes, hist>>

\* Serial.println(F("OK"))
OkStep(here, next) ==
  /\ pc = here
  /\ println("OK")
  /\ pc' = next
  /\ UNCHANGED <<RELAY_ACTIVE_LOW, ddr, port, inverterEnabled, chargerEnabled, locals, writes>>

\* publishState(); return;
PublishStep(here) ==
  /\ pc = here
  /\ publishState
  /\ pc' = "idle"
  /\ UNCHANGED <<RELAY_ACTIVE_LOW, ddr, port, inverterEnabled, chargerEnabled, locals, writes>>

LoopOnParse == ParseStep("on_parse", "ERR bad ON value", "on_set")

LoopOnSet ==
  /\ pc = "on_set"
  /\ setInverter(v[1])
  /\ pc' = "on_ok"
  /\ UNCHANGED <<RELAY_ACTIVE_LOW, ddr, chargerEnabled, locals, tx>>

LoopOnOk == OkStep("on_ok", "on_publish")

\* the ON branch returning after OK without the snapshot
LoopOnPublish_Silent ==
  /\ pc = "on_publish"
  /\ pc' = "idle"
  /\ UNCHANGED <<RELAY_ACTIVE_LOW, ddr, port, inverterEnabled, chargerEnabled, locals, tx, writes>>

LoopOnPublish == PublishStep("on_publish")

\* the CH branch going on without looking at what parseBool returned
LoopChParse_Unchecked ==
  /\ pc = "ch_parse"
  /\ \E v0 \in BOOLEAN :
     LET r == parseBool(arg, v0) IN
       /\ v' = << r[2] >>
       /\ ret' = r[1]
  /\ pc' = "ch_set"
  /\ UNCHANGED <<RELAY_ACTIVE_LOW, ddr, port, inverterEnabled, chargerEnabled,
                 rx, line, cmd, arg, aside, tx, writes, hist>>

LoopChParse == ParseStep("ch_parse", "ERR bad CH value", "ch_set")

LoopChSet ==
  /\ pc = "ch_set"
  /\ setCharger(v[1])
  /\ pc' = "ch_ok"
  /\ UNCHANGED <<RELAY_ACTIVE_LOW, ddr, inverterEnabled, locals, tx>>

LoopChOk == OkStep("ch_ok", "ch_publish")

LoopChPublish == PublishStep("ch_publish")

LoopAllParse == ParseStep("all_parse", "ERR bad ALL value", "all_setInverter")

LoopAllSetInverter ==
  /\ pc = "all_setInverter"
  /\ setInverter(v[1])
  /\ pc' = "all_setCharger"
  /\ UNCHANGED <<RELAY_ACTIVE_LOW, ddr, chargerEnabled, locals, tx>>

\* the ALL branch without its setCharger call
LoopAllSetCharger_Missing ==
  /\ pc = "all_setCharger"
  /\ pc' = "all_ok"
  /\ UNCHANGED <<RELAY_ACTIVE_LOW, ddr, port, inverterEnabled, chargerEnabled,
                 locals, tx, writes>>

LoopAllSetCharger ==
  /\ pc = "all_setCharger"
  /\ setCharger(v[1])
  /\ pc' = "all_ok"
  /\ UNCHANGED <<RELAY_ACTIVE_LOW, ddr, inverterEnabled, locals, tx>>

LoopAllOk == OkStep("all_ok", "all_publish")

LoopAllPublish == PublishStep("all_publish")

\* the last branch returning without an answer
LoopUnknown_Silent ==
  /\ pc = "unknown"
  /\ pc' = "idle"
  /\ UNCHANGED <<RELAY_ACTIVE_LOW, ddr, port, inverterEnabled, chargerEnabled, locals, tx, writes>>

\* the last branch waiting instead of answering and returning
LoopUnknown_Stuck ==
  /\ pc = "unknown"
  /\ UNCHANGED vars

LoopUnknown ==
  /\ pc = "unknown"
  /\ println("ERR unknown command (type HELP)")
  /\ pc' = "idle"
  /\ UNCHANGED <<RELAY_ACTIVE_LOW, ddr, port, inverterEnabled, chargerEnabled, locals, writes>>

Loop ==
  \/ LoopRead \/ LoopHelp \/ LoopState
  \/ LoopOnParse \/ LoopOnSet \/ LoopOnOk \/ LoopOnPublish
  \/ LoopChParse \/ LoopChSet \/ LoopChOk \/ LoopChPublish
  \/ LoopAllParse \/ LoopAllSetInverter \/ LoopAllSetCharger
  \/ LoopAllOk \/ LoopAllPublish
  \/ LoopUnknown

Next == Setup \/ Loop

Spec == Init /\ [][Next]_vars

\* the statements of loop() that follow the read
Process ==
  \/ LoopHelp \/ LoopState
  \/ LoopOnParse \/ LoopOnSet \/ LoopOnOk \/ LoopOnPublish
  \/ LoopChParse \/ LoopChSet \/ LoopChOk \/ LoopChPublish
  \/ LoopAllParse \/ LoopAllSetInverter \/ LoopAllSetCharger
  \/ LoopAllOk \/ LoopAllPublish
  \/ LoopUnknown

\* The processor runs the statements of setup() and of loop() one after the
\* other, so a statement that is reached is executed; whether and when the
\* host sends a line is up to the host, so the read is left without fairness.
SpecLive == Init /\ [][Next]_vars /\ WF_vars(Setup \/ Process)

(***************************************************************************)
(* parseBool on its own: called once on each string of PBInputs, with      *)
(* either boolean in the caller's variable.                                *)
(***************************************************************************)
PBAlphabet == { "o", "n", "O", "f", "0", "1", " " }

RECURSIVE StringsUpTo(_)
StringsUpTo(n) ==
  IF n = 0 THEN { <<>> }
  ELSE LET shorter == StringsUpTo(n - 1)
       IN shorter \cup { Append(s, c) : s \in shorter, c \in PBAlphabet }

PBInputs ==
  StringsUpTo(MaxArgLen)
  \cup { toks \o e : toks \in ArgWords, e \in { <<>>, <<"\r">>, <<" ">>, <<"d">> } }
  \cup { <<" ">> \o toks : toks \in ArgWords }
  \cup { <<"T","r","U","e">>, <<"E","N","A","B","L","E","D">>, <<"D","i","s","a","b","l","e">>,
         <<"t","r","u">>, <<"o","f">>, <<"1","0">>, <<"-","1">>, <<"y","e","s">> }

InitPB ==
  /\ RELAY_ACTIVE_LOW = TRUE
  /\ ddr = [p \in Pins |-> INPUT]
  /\ port = [p \in Pins |-> LOW]
  /\ inverterEnabled = TRUE
  /\ chargerEnabled = TRUE
  /\ pc = "parseBool_call"
  /\ rx = <<>>
  /\ line = <<>>
  /\ cmd = <<>>
  /\ arg \in PBInputs
  /\ v \in { <<b>> : b \in BOOLEAN }
  /\ ret = FALSE
  /\ out = <<>>
  /\ writes = <<>>
  /\ h_nth = "none"
  /\ h_view = [word |-> <<>>, arg |-> <<>>]
  /\ h_lastOn = <<>>
  /\ h_lastCh = <<>>
  /\ h_prevAll = <<>>
  /\ h_once = <<>>
  /\ pending = <<>>
  /\ cuts = 0
  /\ call = <<>>
  /\ h_pre = <<TRUE, TRUE>>
  /\ h_snap = <<>>
  /\ h_log = NoLog(FALSE)

ParseBoolCall ==
  /\ pc = "parseBool_call"
  /\ LET r == parseBool(arg, v[1]) IN
       /\ ret' = r[1]
       /\ v' = << r[2] >>
  /\ pc' = "parseBool_done"
  /\ UNCHANGED <<RELAY_ACTIVE_LOW, ddr, port, inverterEnabled, chargerEnabled,
                 rx, line, cmd, arg, aside, tx, writes, hist>>

NextPB == ParseBoolCall

SpecParseBool == InitPB /\ [][NextPB]_vars

(***************************************************************************)
(* The sketch with everything it prints and every line it reads recorded   *)
(* in h_log, for runs of up to MaxLines lines out of StreamLines: a line   *)
(* for each branch of loop(), whole or a piece left by the read timeout.   *)
(***************************************************************************)
StreamLines ==
  { Framed(0, <<"O","N">>, <<"0">>),
    Framed(0, <<"O","N">>, <<"2">>),
    Framed(0, <<"C","H">>, <<"o","f","f">>),
    Framed(0, <<"C","H">>, <<"1">>),
    Framed(0, <<"A","L","L">>, <<"0">>),
    Framed(0, <<"A","L","L">>, <<"e","n","a","b","l","e","d">>),
    Framed(0, <<"S","T","A","T","E","?">>, <<>>),
    Framed(0, <<"H","E","L","P">>, <<>>),
    Framed(0, <<"F","O","O">>, <<"0">>),
    <<"A","L">>,
    <<"\r">> }

InitStream == Reset /\ h_log = NoLog(TRUE)

LoopReadStream ==
  /\ pc = "idle"
  /\ h_log.n < MaxLines
  /\ \E l \in StreamLines :
       /\ Received(l)
       /\ h_log' = [h_log EXCEPT !.n = @ + 1, !.reads = Append(@, l)]
  /\ pending' = <<>>
  /\ cuts' = 0

NextStream == Setup \/ LoopReadStream \/ Process

SpecStream == InitStream /\ [][NextStream]_vars

(***************************************************************************)
(* applyRelay on its own, lines 25-36: one call with either pin and either *)
(* value, from every setting of the two links and of the two output        *)
(* latches, both pins being outputs as they are whenever it is called.     *)
(***************************************************************************)
InitAR ==
  /\ RELAY_ACTIVE_LOW \in BOOLEAN
  /\ ddr = [p \in Pins |-> OUTPUT]
  /\ port \in [Pins -> {LOW, HIGH}]
  /\ inverterEnabled \in BOOLEAN
  /\ chargerEnabled \in BOOLEAN
  /\ pc = "applyRelay_call"
  /\ rx = <<>>
  /\ line = <<>>
  /\ cmd = <<>>
  /\ arg = <<>>
  /\ v = <<>>
  /\ ret = FALSE
  /\ out = <<>>
  /\ writes = <<>>
  /\ h_nth = "none"
  /\ h_view = [word |-> <<>>, arg |-> <<>>]
  /\ h_lastOn = <<>>
  /\ h_lastCh = <<>>
  /\ h_prevAll = <<>>
  /\ h_once = <<>>
  /\ pending = <<>>
  /\ cuts = 0
  /\ call \in [pin : Pins, enabled : BOOLEAN]
  /\ h_pre = <<inverterEnabled, chargerEnabled>>
  /\ h_snap = <<>>
  /\ h_log = NoLog(FALSE)

ApplyRelayCall ==
  /\ pc = "applyRelay_call"
  /\ applyRelay(call.pin, call.enabled)
  /\ pc' = "applyRelay_done"
  /\ UNCHANGED <<RELAY_ACTIVE_LOW, ddr, inverterEnabled, chargerEnabled, locals, tx>>

NextAR == ApplyRelayCall

SpecApplyRelay == InitAR /\ [][NextAR]_vars

(***************************************************************************)
(* Properties.                                                             *)
(***************************************************************************)
Flags == <<inverterEnabled, chargerEnabled>>

Levels == [p \in Pins |-> PinLevel(p)]

WrittenPins == { writes[i][1] : i \in 1..Len(writes) }

\* C1: whenever loop() is idle, each pin is at the de-energized level exactly
\* when its link's flag is true and at the energized level exactly when the
\* flag is false, for both polarities and after any sequence of lines.
C1_LogicalPhysical ==
  pc = "idle" =>
    /\ (PinLevel(RELAY_ON_PIN) = DeEnergizedLevel) <=> inverterEnabled
    /\ (PinLevel(RELAY_ON_PIN) = EnergizedLevel) <=> ~inverterEnabled
    /\ (PinLevel(RELAY_CH_PIN) = DeEnergizedLevel) <=> chargerEnabled
    /\ (PinLevel(RELAY_CH_PIN) = EnergizedLevel) <=> ~chargerEnabled

\* idle after a malformed line, active-high board, ON link open, CH link closed
C1_Witness ==
  /\ pc = "idle"
  /\ h_nth = "later"
  /\ BadValue(h_view)
  /\ ~RELAY_ACTIVE_LOW
  /\ ~inverterEnabled
  /\ chargerEnabled
  /\ PinLevel(RELAY_ON_PIN) = "HIGH"
  /\ PinLevel(RELAY_CH_PIN) = "LOW"

\* the line that was read asks to open the link of pin p
OpensLink(h, p) ==
  /\ Accepted(h)
  /\ ~HostValue(h)
  /\ (p = RELAY_ON_PIN => AddressesOn(h))
  /\ (p = RELAY_CH_PIN => AddressesCh(h))

\* C2: from process start, through every step of setup(), no pin comes to the
\* energized level of the configured polarity before an accepted ON, CH or ALL
\* line with a false value is processed for its link.
C2_BootFailSafe ==
  [][ \A p \in Pins :
        (PinLevel(p)' = EnergizedLevel')
          => (PinLevel(p) = EnergizedLevel \/ OpensLink(h_view', p)) ]_vars

C3_State ==
  BadValue(h_view) =>
    /\ pc \in { "on_parse", "ch_parse", "all_parse", "idle" }
    /\ writes = <<>>
    /\ out = IF pc = "idle" THEN << ErrText(h_view) >> ELSE <<>>

C3_Step ==
  BadValue(h_view') => (Flags' = Flags /\ port' = port /\ ddr' = ddr)

\* C3: an ON, CH or ALL line whose argument is not an accepted token gets the
\* one reply "ERR bad <CMD> value", no OK, no snapshot, no pin write, and
\* leaves both flags as they were.
C3_MalformedValue == []C3_State /\ [][C3_Step]_vars

\* idle after "ON 1 extra" was refused while the ON link was open
C3_Witness ==
  /\ pc = "idle"
  /\ rx = <<"O","N"," ","1"," ","e","x","t","r","a">>
  /\ out = << "ERR bad ON value" >>
  /\ ~inverterEnabled

C4_State ==
  IsUnknown(h_view) =>
    /\ pc \in { "unknown", "idle" }
    /\ writes = <<>>
    /\ out = IF pc = "idle" THEN << "ERR unknown command (type HELP)" >> ELSE <<>>

C4_Step ==
  IsUnknown(h_view') => (Flags' = Flags /\ port' = port /\ ddr' = ddr)

\* C4: a non-empty line whose command word is none of HELP, STATE?, ON, CH,
\* ALL gets the one reply "ERR unknown command (type HELP)", no pin write, and
\* leaves both flags as they were.
C4_UnknownCommand == []C4_State /\ [][C4_Step]_vars

\* idle after "ONN 0" was refused while both links were closed
C4_Witness ==
  /\ pc = "idle"
  /\ rx = <<"O","N","N"," ","0">>
  /\ out = << "ERR unknown command (type HELP)" >>
  /\ inverterEnabled
  /\ chargerEnabled

C5_State ==
  (pc = "idle" /\ Accepted(h_view)) =>
    /\ IsOn(h_view) => (Len(writes) = 1 /\ writes[1][1] = RELAY_ON_PIN)
    /\ IsCh(h_view) => (Len(writes) = 1 /\ writes[1][1] = RELAY_CH_PIN)

C5_Step ==
  /\ IsOn(h_view') =>
       /\ chargerEnabled' = chargerEnabled
       /\ port'[RELAY_CH_PIN] = port[RELAY_CH_PIN]
       /\ \A i \in 1..Len(writes') : writes'[i][1] # RELAY_CH_PIN
  /\ IsCh(h_view') =>
       /\ inverterEnabled' = inverterEnabled
       /\ port'[RELAY_ON_PIN] = port[RELAY_ON_PIN]
       /\ \A i \in 1..Len(writes') : writes'[i][1] # RELAY_ON_PIN

\* C5: an ON line never changes the charger flag nor writes pin 3, a CH line
\* never changes the inverter flag nor writes pin 2, and an accepted ON or CH
\* line makes exactly one digital write, on its own pin.
C5_LinkIndependence == []C5_State /\ [][C5_Step]_vars

\* idle after an accepted ON line opened the ON link while the CH link,
\* opened earlier, stayed open
C5_Witness ==
  /\ pc = "idle"
  /\ IsOn(h_view)
  /\ Accepted(h_view)
  /\ h_lastOn = << FALSE >>
  /\ h_lastCh = << FALSE >>
  /\ ~inverterEnabled
  /\ ~chargerEnabled
  /\ Len(writes) = 1

\* C6: an accepted ALL line sets both flags to its value with one relay write
\* per pin, replies OK and one snapshot showing both links at that value, and
\* prints nothing before both flags are set; a STATE? sent right after it
\* shows the same in one line.
C6_AllSetsBoth ==
  /\ (Accepted(h_view) /\ IsAll(h_view)) =>
       /\ pc = "idle" =>
            /\ inverterEnabled = HostValue(h_view)
            /\ chargerEnabled = HostValue(h_view)
            /\ Len(writes) = 2
            /\ WrittenPins = Pins
            /\ out = << "OK", SnapText(HostValue(h_view), HostValue(h_view)) >>
       /\ out # <<>> =>
            /\ inverterEnabled = HostValue(h_view)
            /\ chargerEnabled = HostValue(h_view)
            /\ Len(writes) = 2
  /\ (pc = "idle" /\ IsQueryState(h_view) /\ h_prevAll # <<>>) =>
       out = << SnapText(h_prevAll[1], h_prevAll[1]) >>

\* idle after STATE? that followed an accepted ALL line with a false value
C6_Witness ==
  /\ pc = "idle"
  /\ IsQueryState(h_view)
  /\ h_prevAll = << FALSE >>
  /\ out = << "STATE ON=0 CH=0" >>

\* C7: STATE? reports for each link the value of the last accepted line that
\* set it (ON or ALL for the ON link, CH or ALL for the CH link), whatever
\* other lines were processed in between.
C7_SetThenQuery ==
  (pc = "idle" /\ IsQueryState(h_view)) =>
    /\ Len(out) = 1
    /\ h_lastOn # <<>> =>
         out[1] \in { SnapText(h_lastOn[1], TRUE), SnapText(h_lastOn[1], FALSE) }
    /\ h_lastCh # <<>> =>
         out[1] \in { SnapText(TRUE, h_lastCh[1]), SnapText(FALSE, h_lastCh[1]) }

\* idle after STATE? answered ON=0 CH=1, the line before it not being ALL
C7_Witness ==
  /\ pc = "idle"
  /\ IsQueryState(h_view)
  /\ h_lastOn = << FALSE >>
  /\ h_lastCh = << TRUE >>
  /\ h_prevAll = <<>>
  /\ out = << "STATE ON=0 CH=1" >>

\* the links line l addresses already hold its value
Held(h) ==
  /\ AddressesOn(h) => inverterEnabled = HostValue(h)
  /\ AddressesCh(h) => chargerEnabled = HostValue(h)

C8_State ==
  (pc = "idle" /\ Accepted(h_view)) =>
    /\ out = << "OK", SnapText(inverterEnabled, chargerEnabled) >>
    /\ h_once # <<>> => Result = h_once[1]

C8_Step ==
  (Accepted(h_view') /\ Held(h_view')) => (Flags' = Flags /\ Levels' = Levels)

\* C8: an accepted ON, CH or ALL line with the value already held replies OK
\* and the snapshot and changes no flag and no pin level; the same accepted
\* line processed twice in a row leaves the state and the replies of the
\* first time.
C8_Idempotence == []C8_State /\ [][C8_Step]_vars

\* idle after the same accepted ON line with a false value was processed twice
C8_Witness ==
  /\ pc = "idle"
  /\ IsOn(h_view)
  /\ Accepted(h_view)
  /\ ~HostValue(h_view)
  /\ h_once # <<>>
  /\ ~inverterEnabled
  /\ out = << "OK", "STATE ON=0 CH=1" >>

Banner ==
  << "Victron Remote Relay Ready", "STATE ON=1 CH=1", "Type HELP for commands" >>

\* C9: when setup() ends both flags are true, both pins are de-energized, and
\* the ready message, the snapshot STATE ON=1 CH=1 and the HELP hint have been
\* printed once, in this order, none before both pins were driven; STATE? as
\* the first line returns STATE ON=1 CH=1.
C9_StartupBanner ==
  /\ (h_nth = "none" /\ pc = "idle") =>
       /\ inverterEnabled
       /\ chargerEnabled
       /\ \A p \in Pins : PinLevel(p) = DeEnergizedLevel
       /\ out = Banner
  /\ h_nth = "none" =>
       /\ Len(out) <= 3
       /\ out = SubSeq(Banner, 1, Len(out))
       /\ out # <<>> =>
            (WrittenPins = Pins /\ \A p \in Pins : PinLevel(p) = DeEnergizedLevel)
  /\ h_nth # "none" =>
       \A i \in 1..Len(out) : out[i] \notin { Banner[1], Banner[3] }
  /\ (h_nth = "first" /\ pc = "idle" /\ IsQueryState(h_view)) =>
       out = << "STATE ON=1 CH=1" >>

\* idle after STATE? was processed as the first line, active-high board
C9_Witness ==
  /\ h_nth = "first"
  /\ pc = "idle"
  /\ IsQueryState(h_view)
  /\ ~RELAY_ACTIVE_LOW
  /\ out = << "STATE ON=1 CH=1" >>

Norm(s) == toLowerCase(trim(s))

C10_State ==
  pc = "parseBool_done" =>
    /\ (ret /\ v[1]) <=> Norm(arg) \in TrueTokens
    /\ (ret /\ ~v[1]) <=> Norm(arg) \in FalseTokens
    /\ ~ret <=> Norm(arg) \notin TrueTokens \cup FalseTokens

C10_Step ==
  (pc = "parseBool_call" /\ ~ret') => v' = v

\* C10: parseBool returns true with value true exactly for 1, on, true,
\* enable, enabled, true with value false exactly for 0, off, false, disable,
\* disabled (after trimming and lower-casing), false for every other string,
\* and then leaves the caller's variable as it was.
C10_ParseBool == []C10_State /\ [][C10_Step]_vars

\* parseBool was called on " ON", blank and upper case, and accepted it as true
C10_Witness ==
  /\ pc = "parseBool_done"
  /\ arg = <<" ","O","N">>
  /\ ret
  /\ v[1]
\* the level applyRelay is to write for a link value under the polarity
DriverLevel(activeLow, enabled) ==
  IF activeLow
  THEN (IF enabled THEN "HIGH" ELSE "LOW")
  ELSE (IF enabled THEN "LOW" ELSE "HIGH")

C11_State ==
  pc = "applyRelay_done" =>
    writes = << <<call.pin, DriverLevel(RELAY_ACTIVE_LOW, call.enabled)>> >>

C11_Step ==
  pc = "applyRelay_call" /\ pc' = "applyRelay_done" =>
    /\ Flags' = Flags
    /\ ddr' = ddr
    /\ port'[call.pin] = DriverLevel(RELAY_ACTIVE_LOW, call.enabled)
    /\ \A p \in Pins \ {call.pin} : port'[p] = port[p]

\* C11: a call applyRelay(pin, enabled) makes exactly one digital write, to
\* the given pin and to no other: HIGH for enabled = true and LOW for
\* enabled = false on an active-low board, the other way round on an
\* active-high one; it changes neither link flag.
C11_RelayDriverMapping == []C11_State /\ [][C11_Step]_vars

C11_Witness ==
  /\ pc = "applyRelay_done"
  /\ ~RELAY_ACTIVE_LOW
  /\ call = [pin |-> RELAY_CH_PIN, enabled |-> FALSE]
  /\ writes = << <<RELAY_CH_PIN, "HIGH">> >>
  /\ port[RELAY_ON_PIN] = "LOW"
  /\ inverterEnabled /\ chargerEnabled

\* a text of nothing but blanks, tabs and carriage returns, the empty one included
IsBlank(l) == \A i \in 1..Len(l) : l[i] \in {" ", "\t", "\r"}

C12_State ==
  h_nth # "none" /\ IsBlank(rx) =>
    /\ pc = "idle"
    /\ out = <<>>
    /\ writes = <<>>
    /\ Flags = h_pre

C12_Step ==
  h_nth' # "none" /\ IsBlank(rx') =>
    /\ Flags' = Flags
    /\ Levels' = Levels
    /\ port' = port
    /\ h_snap' = h_snap

\* C12: a line that is empty once trimmed (nothing, a lone carriage return,
\* only blanks) produces no output, no pin write and no flag change.
C12_EmptyLine == []C12_State /\ [][C12_Step]_vars

C12_Witness ==
  /\ pc = "idle"
  /\ h_nth = "later"
  /\ rx = <<"\r">>
  /\ out = <<>>
  /\ writes = <<>>
  /\ ~inverterEnabled

\* the usage listing HELP is to print
UsageText ==
  << "Commands:",
     "  ON 1 | ON 0",
     "  CH 1 | CH 0",
     "  ALL 1 | ALL 0",
     "  STATE?",
     "  HELP" >>

C13_State ==
  /\ IsQueryState(h_view) =>
       /\ pc \in {"state", "idle"}
       /\ writes = <<>>
       /\ Flags = h_pre
       /\ out = IF pc = "idle"
                THEN << SnapText(inverterEnabled, chargerEnabled) >> ELSE <<>>
  /\ IsHelp(h_view) =>
       /\ pc \in {"help", "idle"}
       /\ writes = <<>>
       /\ Flags = h_pre
       /\ out = IF pc = "idle" THEN UsageText ELSE <<>>

C13_Step ==
  IsQueryState(h_view') \/ IsHelp(h_view') =>
    /\ Flags' = Flags
    /\ Levels' = Levels
    /\ port' = port

\* C13: STATE? and HELP, in any letter case and with or without text after
\* the word, never change a flag and never write a pin; STATE? prints
\* exactly one line, STATE ON=<a> CH=<b> with the current flags as 0 or 1,
\* and HELP prints the same fixed usage listing in every state.
C13_QueriesReadOnly == []C13_State /\ [][C13_Step]_vars

C13_Witness ==
  /\ pc = "idle"
  /\ rx = <<"H","E","L","P"," ","0">>
  /\ IsHelp(h_view)
  /\ out = UsageText
  /\ ~inverterEnabled /\ chargerEnabled

\* the write of link value b to pin p
DriverWrite(p, b) == <<p, DriverLevel(RELAY_ACTIVE_LOW, b)>>

C14_Step ==
  (/\ h_nth' # "none"
   /\ \/ Flags' # Flags
      \/ port' # port
      \/ ddr' # ddr
      \/ Len(writes') > Len(writes))
  =>
    /\ pc # "idle"
    /\ h_view' = h_view
    /\ Accepted(h_view)
    /\ \/ /\ AddressesOn(h_view)
          /\ inverterEnabled' = HostValue(h_view)
          /\ chargerEnabled' = chargerEnabled
          /\ writes' = Append(writes, DriverWrite(RELAY_ON_PIN, HostValue(h_view)))
          /\ port' = [port EXCEPT ![RELAY_ON_PIN] = DriverLevel(RELAY_ACTIVE_LOW, HostValue(h_view))]
       \/ /\ AddressesCh(h_view)
          /\ chargerEnabled' = HostValue(h_view)
          /\ inverterEnabled' = inverterEnabled
          /\ writes' = Append(writes, DriverWrite(RELAY_CH_PIN, HostValue(h_view)))
          /\ port' = [port EXCEPT ![RELAY_CH_PIN] = DriverLevel(RELAY_ACTIVE_LOW, HostValue(h_view))]
    /\ ddr' = ddr

\* C14: after setup a flag changes, and a pin is written, only while an ON,
\* CH or ALL line with an argument parseBool accepts is being processed, and
\* the value the flag and the pin get is exactly the boolean of that
\* argument.
C14_ValidatedOnly == [][C14_Step]_vars

\* the first line read was an accepted ON line and has just opened the link
C14_Witness ==
  /\ pc = "on_ok"
  /\ h_nth = "first"
  /\ Accepted(h_view) /\ IsOn(h_view) /\ ~HostValue(h_view)
  /\ ~inverterEnabled /\ chargerEnabled
  /\ writes = << DriverWrite(RELAY_ON_PIN, FALSE) >>

\* C15: whatever line is read (valid, malformed, unknown, empty, a piece cut
\* off by the read timeout), its processing ends and control is back at the
\* poll for input, and there the next line can always be read.
C15_ReturnsToWaiting ==
  /\ [](pc = "idle" => ENABLED LoopRead)
  /\ ((h_nth # "none" /\ pc # "idle") ~> (pc = "idle"))

\* a piece cut off by the timeout has been answered and the poll is reached
\* with the rest of the line still to come
C15_Witness ==
  /\ pc = "idle"
  /\ h_nth = "later"
  /\ cuts > 0
  /\ pending # <<>>
  /\ IsUnknown(h_view)
  /\ out = << "ERR unknown command (type HELP)" >>

\* the two links after line h is applied to the links f
RefFlags(h, f) ==
  IF Accepted(h)
  THEN << IF AddressesOn(h) THEN HostValue(h) ELSE f[1],
          IF AddressesCh(h) THEN HostValue(h) ELSE f[2] >>
  ELSE f

\* the reply to line h read with the links at f
RefReply(h, f) ==
  IF h.word = <<>> THEN <<>>
  ELSE IF IsHelp(h) THEN UsageText
  ELSE IF IsQueryState(h) THEN << SnapText(f[1], f[2]) >>
  ELSE IF Accepted(h) THEN << "OK", SnapText(RefFlags(h, f)[1], RefFlags(h, f)[2]) >>
  ELSE IF BadValue(h) THEN << ErrText(h) >>
  ELSE << "ERR unknown command (type HELP)" >>

RECURSIVE RefRun(_, _)
\* the lines ls applied one after the other from the links f: all the replies
\* in the order of the lines, and the links at the end
RefRun(ls, f) ==
  IF ls = <<>> THEN [stream |-> <<>>, flags |-> f]
  ELSE LET h == HostView(Head(ls))
           r == RefRun(Tail(ls), RefFlags(h, f))
       IN [stream |-> RefReply(h, f) \o r.stream, flags |-> r.flags]

IsPrefix(s, t) == Len(s) <= Len(t) /\ s = SubSeq(t, 1, Len(s))

\* C16: lines are processed one at a time, each to its end, in the order
\* they arrive: what has been printed is the banner followed by the replies
\* to the lines in the order the lines were read, the reply to the line
\* being processed still growing, and once the last line is done the links
\* and the pins are as after applying the lines one after the other.
C16_ArrivalOrder ==
  (h_log.rec /\ h_log.n > 0) =>
    LET n == h_log.n
        done == RefRun(SubSeq(h_log.reads, 1, n - 1), <<TRUE, TRUE>>)
        all == RefRun(h_log.reads, <<TRUE, TRUE>>)
    IN /\ Len(h_log.reads) = n
       /\ IsPrefix(Banner \o done.stream, h_log.stream)
       /\ IsPrefix(h_log.stream, Banner \o all.stream)
       /\ pc = "idle" =>
            /\ h_log.stream = Banner \o all.stream
            /\ Flags = all.flags
            /\ \A p \in Pins :
                 PinLevel(p) = DriverLevel(RELAY_ACTIVE_LOW,
                                          IF p = RELAY_ON_PIN THEN all.flags[1]
                                          ELSE all.flags[2])

C16_Witness ==
  /\ pc = "idle"
  /\ h_log.reads = << <<"O","N"," ","0">>, <<"A","L">>, <<"S","T","A","T","E","?"," ">> >>
  /\ h_log.stream = Banner \o << "OK", "STATE ON=0 CH=1",
                                 "ERR unknown command (type HELP)",
                                 "STATE ON=0 CH=1" >>
  /\ ~inverterEnabled /\ chargerEnabled

\* a text that starts with one of the five command words
Recognizable(h) == IsMutWord(h.word) \/ IsQueryState(h) \/ IsHelp(h)

C17_State ==
  (h_nth # "none" /\ cuts > 0) =>
    /\ pc = "idle" =>
         /\ out = RefReply(h_view, h_pre)
         /\ Flags = RefFlags(h_view, h_pre)
         /\ ENABLED LoopRead
    /\ ~Recognizable(h_view) =>
         /\ pc \in {"unknown", "idle"}
         /\ out \in { <<>>, << "ERR unknown command (type HELP)" >> }
         /\ writes = <<>>
         /\ Flags = h_pre

C17_Step ==
  (cuts' > 0 /\ ~Recognizable(h_view')) =>
    /\ Flags' = Flags
    /\ Levels' = Levels
    /\ port' = port

\* C17: what a read returns when the 50 ms timeout cuts a line is processed
\* exactly as a complete line of that content; a piece that starts with none
\* of the command words is ignored in silence or answered with
\* ERR unknown command (type HELP), changes no state and blocks no read.
C17_TimeoutTruncated == []C17_State /\ [][C17_Step]_vars

\* ON 0 cut off before its carriage return has been obeyed as the line ON 0
C17_Witness ==
  /\ pc = "idle"
  /\ cuts = 1
  /\ rx = <<"O","N"," ","0">>
  /\ pending = << <<"\r">> >>
  /\ out = << "OK", "STATE ON=0 CH=1" >>
  /\ ~inverterEnabled /\ chargerEnabled

\* the writes an accepted line h is to make, in their order
DueWrites(h) ==
  (IF AddressesOn(h) THEN << DriverWrite(RELAY_ON_PIN, HostValue(h)) >> ELSE <<>>)
  \o (IF AddressesCh(h) THEN << DriverWrite(RELAY_CH_PIN, HostValue(h)) >> ELSE <<>>)

C18_State ==
  (h_nth # "none" /\ Accepted(h_view)) =>
    LET g == RefFlags(h_view, h_pre) IN
    /\ IsPrefix(writes, DueWrites(h_view))
    /\ out # <<>> =>
         /\ out[1] = "OK"
         /\ Flags = g
         /\ writes = DueWrites(h_view)
         /\ AddressesOn(h_view) =>
              PinLevel(RELAY_ON_PIN) = DriverLevel(RELAY_ACTIVE_LOW, HostValue(h_view))
         /\ AddressesCh(h_view) =>
              PinLevel(RELAY_CH_PIN) = DriverLevel(RELAY_ACTIVE_LOW, HostValue(h_view))
    /\ Len(out) = 1 => pc \in {"on_publish", "ch_publish", "all_publish"}
    /\ Len(out) > 1 => pc = "idle"
    /\ pc = "idle" => out = << "OK", SnapText(g[1], g[2]) >>

C18_Step ==
  (h_nth' # "none" /\ Accepted(h_view') /\ out' # <<>>) =>
    /\ Flags' = Flags
    /\ Levels' = Levels
    /\ writes' = writes

\* C18: in an accepted ON, CH or ALL command the flags are updated and the
\* pins written first, then OK is printed, then exactly one snapshot line
\* that shows the state after the change: OK is never printed before the
\* relay is driven and never without the snapshot following it.
C18_OrderOfEffects == []C18_State /\ [][C18_Step]_vars

\* ALL with a false token: both writes made, OK printed, the snapshot due
C18_Witness ==
  /\ pc = "all_publish"
  /\ Accepted(h_view) /\ IsAll(h_view) /\ ~HostValue(h_view)
  /\ h_pre = <<TRUE, TRUE>>
  /\ Flags = <<FALSE, FALSE>>
  /\ Len(writes) = Len(DueWrites(h_view))
  /\ out = << "OK" >>

\* the two raw writes of setup()
RawWrites == << <<RELAY_ON_PIN, DeEnergizedLevel>>, <<RELAY_CH_PIN, DeEnergizedLevel>> >>

\* setup() from the end of the raw writes to its end
AfterRawWrites ==
  \/ pc \in {"setup_serial", "setup_setInverter", "setup_setCharger",
              "setup_ready", "setup_publishState", "setup_hint"}
  \/ pc = "idle" /\ h_nth = "none"

C19_State ==
  /\ AfterRawWrites =>
       /\ IsPrefix(RawWrites, writes)
       /\ \A p \in Pins : PinLevel(p) = DeEnergizedLevel
  /\ pc \in {"setup_serial", "setup_setInverter"} => writes = RawWrites
  /\ pc = "setup_setCharger" =>
       writes = RawWrites \o << <<RELAY_ON_PIN, DeEnergizedLevel>> >>
  /\ (AfterRawWrites /\ pc \notin {"setup_serial", "setup_setInverter", "setup_setCharger"}) =>
       writes = RawWrites \o RawWrites

C19_Step ==
  (AfterRawWrites /\ h_nth' = "none") => Levels' = Levels /\ port' = port

\* C19: in setup() the raw de-energized write to both pins comes before
\* setInverter(true) and setCharger(true), and each of these two calls writes
\* the level its pin already holds: from the raw writes to the end of
\* setup() no pin level changes, with either polarity.
C19_SetupOrdering == []C19_State /\ [][C19_Step]_vars

\* an active-high board at the ready line: four writes, all LOW
C19_Witness ==
  /\ pc = "setup_ready"
  /\ ~RELAY_ACTIVE_LOW
  /\ writes = << <<RELAY_ON_PIN, "LOW">>, <<RELAY_CH_PIN, "LOW">>,
                 <<RELAY_ON_PIN, "LOW">>, <<RELAY_CH_PIN, "LOW">> >>
  /\ \A p \in Pins : PinLevel(p) = "LOW"

\* C20: whenever the sketch is at the poll for input, the snapshot line it
\* printed last (in the banner, for STATE? or after an accepted ON, CH or
\* ALL) shows the flags as they are, so no flag has changed without a
\* snapshot printed before the next line is read.
C20_HostViewInSync ==
  pc = "idle" => h_snap = << SnapText(inverterEnabled, chargerEnabled) >>

\* the last snapshot is that of an earlier line and still shows the flags
C20_Witness ==
  /\ pc = "idle"
  /\ h_nth = "later"
  /\ BadValue(h_view)
  /\ out = << ErrText(h_view) >>
  /\ Flags = <<FALSE, TRUE>>
  /\ h_snap = << "STATE ON=0 CH=1" >>

====
